---------------------------- MODULE Spec2Model ----------------------------
(***************************************************************************)
(* Full-page capture pipeline of the WebPageScreenShotTaker extension.     *)
(*                                                                         *)
(* src/popup.js registers two 'start-capture' listeners on                 *)
(* browser.runtime.onMessage: the first content script (lines 179-654)     *)
(* and the second content script (lines 666-944).  Each has its own        *)
(* isRunning flag, its own tile list and its own copy of captureFullPage,  *)
(* stitchImages and renderPdfFromImage; both act on the one window (scroll *)
(* position), the one capture primitive and the one delivery sink.         *)
(* Listener 1 is the first content script, listener 2 the second.          *)
(*                                                                         *)
(* Every await of the code is a suspension point: an action of the model   *)
(* is the code that runs between two suspension points.                    *)
(***************************************************************************)
EXTENDS Integers, Sequences, FiniteSets, TLC

VARIABLES
    doc,             \* the document: totalHeight, viewportHeight, devicePixelRatio
    scrollY,         \* window.scrollY, shared by both listeners
    isRunning,       \* isRunning of each content script (popup.js:181, 668)
    pc,              \* where each listener's run is suspended
    originalScrollY, \* captureFullPage's originalScrollY (popup.js:273, 713)
    currentY,        \* captureFullPage's currentY
    slices,          \* captureFullPage's slices (a local: gone when the run ends)
    requested,       \* offsets for which a capture-viewport request was sent
    nScroll,         \* window.scrollTo calls made by the current run
    stitched,        \* result of stitchImages of the current run
    attempt,         \* createPdfFromCanvas / canvasToJpegUint8Array call in flight
    pngPending,      \* toBlob callbacks of the PNG test save not yet run
    sink,            \* save-pdf messages handed to the background by the
                     \* latest run of each listener (and by late callbacks)
    failures,        \* step failures the current run has met so far
    runId,           \* number of runs each listener has started
    lastExit,        \* how the last finished run of each listener ended
    msgs,            \* start-capture messages dispatched so far
    objects,         \* MinimalPdf: this.objects, a list of {id, str}
    pages,           \* MinimalPdf: this.pages, the page object IDs
    nextId,          \* MinimalPdf: this.nextId
    catalogId,       \* MinimalPdf: this.catalogId
    pagesId,         \* MinimalPdf: this.pagesId
    out,             \* what serialize() returned, once it has been called
    bytes,           \* the argument of ascii85Encode
    encoded,         \* what ascii85Encode(bytes) returned, once called
    handler,         \* the background script loaded: 1 background.js,
                     \* 2 unnamed/part_001
    sender,          \* sender.tab of the capture-viewport request at hand
    bpc,             \* where the capture-viewport handler is suspended
    hasPermission,   \* what browser.permissions.contains answered
    captured,        \* browser.tabs.captureVisibleTab was called
    answer           \* what the handler's promise settled with

\* The capture pipeline, the document writer, the encoder, the background
\* script's capture-viewport handler.
captureVars == <<doc, scrollY, isRunning, pc, originalScrollY, currentY,
                 slices, requested, nScroll, stitched, attempt, pngPending,
                 sink, failures, runId, lastExit, msgs>>
pdfVars == <<objects, pages, nextId, catalogId, pagesId, out>>
a85Vars == <<bytes, encoded>>
bgVars == <<handler, sender, bpc, hasPermission, captured, answer>>

vars == <<captureVars, pdfVars, a85Vars, bgVars>>

(***************************************************************************)
(* Bounds of the model.                                                    *)
(***************************************************************************)
MaxMsgs == 2

\* The two listeners, in registration order (the order the host calls them).
L == {1, 2}

\* Document metrics the model explores: <<totalHeight, viewportHeight,
\* dprNum, dprDen>>.  They cover an exact multiple, the +1 tolerance
\* (totalHeight = k*vh - 1), a page shorter than its viewport and the
\* spec's example 1801/800.
DocTuples ==
    { <<4, 2, 1, 1>>, <<3, 2, 1, 1>>, <<1, 3, 1, 1>>, <<1801, 800, 1, 1>> }

Docs ==
    { [totalHeight |-> t[1], viewportHeight |-> t[2],
       dprNum |-> t[3], dprDen |-> t[4]] : t \in DocTuples }

Doc1801 ==
    [totalHeight |-> 1801, viewportHeight |-> 800, dprNum |-> 1, dprDen |-> 1]

\* Scroll positions the user may have asked for before the first message
\* arrives (the host clamps them to the scrollable range).
ScrollStarts == {1}

Max(a, b) == IF a >= b THEN a ELSE b
Min(a, b) == IF a <= b THEN a ELSE b

(***************************************************************************)
(* getDocumentMetrics and the loop arithmetic of captureFullPage.          *)
(***************************************************************************)
getDocumentMetrics == doc

maxScrollY == getDocumentMetrics.totalHeight - getDocumentMetrics.viewportHeight

\* while (currentY <= maxScrollY + 1)
LoopCondStrict(y) == y <= maxScrollY
LoopCondWide(y) == y <= maxScrollY + getDocumentMetrics.viewportHeight
LoopCond(y) == y <= maxScrollY + 1

\* window.scrollTo(0, y): the host clamps to the scrollable range.
HostScroll(y) == Max(0, Min(y, Max(0, maxScrollY)))

\* const toPixels = (css) => Math.round(css * dpr), dpr = dprNum / dprDen
toPixels(css) ==
    (2 * css * doc.dprNum + doc.dprDen) \div (2 * doc.dprDen)

\* const viewportWidth = window.innerWidth
viewportWidth == 3

\* The tile the capture primitive returns for the visible viewport.
NaturalHeight == toPixels(doc.viewportHeight)
NaturalWidth == toPixels(viewportWidth)

NoRaster ==
    [done |-> FALSE, pixelWidth |-> 0, pixelHeight |-> 0, fill |-> FALSE,
     draws |-> <<>>]

(***************************************************************************)
(* The run guard.                                                          *)
(***************************************************************************)
\* if (isRunning) return;
GuardOff(l) == FALSE
Guard(l) == isRunning[l]

\* finally { isRunning = false; }  -- the value isRunning gets on exit `kind`
FinallyLeaky(kind) == kind = "empty"
Finally(kind) == FALSE

\* Strings are sequences of UTF-16 code units, buffers sequences of bytes.
\* serialize() has not been called / ascii85Encode has not been called.
NoOut == [done |-> FALSE, bytes |-> <<>>]
NoCall == [done |-> FALSE, str |-> <<>>]

\* nextObjectId() { return this.nextId++; }  -- nextId after the call, which
\* returns the value before
nextObjectIdStuck(n) == n
nextObjectId(n) == n + 1

\* new MinimalPdf(): objects = [], pages = [], nextId = 1,
\* catalogId = nextObjectId(), pagesId = nextObjectId()
constructor ==
    [objects |-> <<>>, pages |-> <<>>, catalogId |-> 1,
     pagesId |-> nextObjectId(1), nextId |-> nextObjectId(nextObjectId(1))]

Constructed ==
    /\ objects = constructor.objects
    /\ pages = constructor.pages
    /\ nextId = constructor.nextId
    /\ catalogId = constructor.catalogId
    /\ pagesId = constructor.pagesId
    /\ out = NoOut

NotEncoding ==
    /\ bytes = <<>>
    /\ encoded = NoCall

\* No capture-viewport request is at hand.
NoSender == [tab |-> FALSE, hasUrl |-> FALSE, url |-> <<>>]
NoAnswer == [kind |-> "none", val |-> [type |-> "undefined", str |-> <<>>]]

BgIdle ==
    /\ handler = 1
    /\ sender = NoSender
    /\ bpc = "idle"
    /\ hasPermission = "unasked"
    /\ captured = FALSE
    /\ answer = NoAnswer

\* No start-capture message has arrived.
CaptureIdle ==
    /\ scrollY \in { HostScroll(s) : s \in ScrollStarts }
    /\ isRunning = [l \in L |-> FALSE]
    /\ pc = [l \in L |-> "idle"]
    /\ originalScrollY = [l \in L |-> 0]
    /\ currentY = [l \in L |-> 0]
    /\ slices = [l \in L |-> <<>>]
    /\ requested = [l \in L |-> <<>>]
    /\ nScroll = [l \in L |-> 0]
    /\ stitched = [l \in L |-> NoRaster]
    /\ attempt = [l \in L |-> 0]
    /\ pngPending = {}
    /\ sink = {}
    /\ failures = [l \in L |-> {}]
    /\ runId = [l \in L |-> 0]
    /\ lastExit = [l \in L |-> "none"]
    /\ msgs = 0

Init ==
    /\ doc \in Docs
    /\ CaptureIdle
    /\ Constructed
    /\ BgIdle
    /\ NotEncoding

(***************************************************************************)
(* The end of a run: catch / finally of the start-capture listener.  The   *)
(* run's locals go out of scope.                                           *)
(*   kind: "delivered"  the save-pdf message was answered                  *)
(*         "empty"      return on slices.length === 0                      *)
(*         "failed"     an error thrown by capture, stitch or encode       *)
(*         "saveFailed" the save-pdf message was rejected                  *)
(***************************************************************************)
Exit(l, kind) ==
    /\ isRunning' = [isRunning EXCEPT ![l] = Finally(kind)]
    /\ pc' = [pc EXCEPT ![l] = "idle"]
    /\ lastExit' = [lastExit EXCEPT ![l] = kind]
    /\ originalScrollY' = [originalScrollY EXCEPT ![l] = 0]
    /\ currentY' = [currentY EXCEPT ![l] = 0]
    /\ slices' = [slices EXCEPT ![l] = <<>>]
    /\ requested' = [requested EXCEPT ![l] = <<>>]
    /\ nScroll' = [nScroll EXCEPT ![l] = 0]
    /\ stitched' = [stitched EXCEPT ![l] = NoRaster]
    /\ attempt' = [attempt EXCEPT ![l] = 0]
    /\ failures' = [failures EXCEPT ![l] = {}]

(***************************************************************************)
(* A start-capture message.  The host calls both listeners, in             *)
(* registration order; each runs to its first await:                       *)
(*   guard, isRunning = true, getDocumentMetrics, and captureFullPage up   *)
(*   to `await wait(150)` after the first window.scrollTo(0, 0).           *)
(* When the loop condition fails at currentY = 0 captureFullPage restores  *)
(* the scroll position and returns no slices: the first script returns     *)
(* through its `slices.length === 0` check, the second goes on to          *)
(* stitchImages.                                                           *)
(***************************************************************************)
Started(l) == ~Guard(l)

\* window.scrollY after listener l has run to its first await, from s.
EntryScroll(l, s) ==
    IF Started(l)
    THEN IF LoopCond(0) THEN HostScroll(0) ELSE HostScroll(s)
    ELSE s

\* window.scrollY as listener l reads it into originalScrollY.
SeenBy(l) == IF l = 1 THEN scrollY ELSE EntryScroll(1, scrollY)

\* if (slices.length === 0) return;  -- only the first script has the check
EmptyCheck(l) == l = 1

\* The listener returns at once: the loop is not entered and the empty
\* slices end the run.
ReturnsEmpty(l) == Started(l) /\ ~LoopCond(0) /\ EmptyCheck(l)

StartCapture ==
    /\ msgs < MaxMsgs
    /\ msgs' = msgs + 1
    /\ scrollY' = EntryScroll(2, SeenBy(2))
    /\ runId' = [l \in L |-> IF Started(l) THEN runId[l] + 1 ELSE runId[l]]
    /\ isRunning' = [l \in L |->
            IF ~Started(l) THEN isRunning[l]
            ELSE IF ReturnsEmpty(l) THEN Finally("empty") ELSE TRUE]
    /\ pc' = [l \in L |->
            IF ~Started(l) THEN pc[l]
            ELSE IF LoopCond(0) THEN "wait"
            ELSE IF EmptyCheck(l) THEN "idle" ELSE "load"]
    /\ lastExit' = [l \in L |->
            IF ~Started(l) THEN lastExit[l]
            ELSE IF ReturnsEmpty(l) THEN "empty" ELSE "none"]
    /\ originalScrollY' = [l \in L |->
            IF ~Started(l) THEN originalScrollY[l]
            ELSE IF ReturnsEmpty(l) THEN 0 ELSE SeenBy(l)]
    /\ currentY' = [l \in L |-> IF Started(l) THEN 0 ELSE currentY[l]]
    /\ slices' = [l \in L |-> IF Started(l) THEN <<>> ELSE slices[l]]
    /\ requested' = [l \in L |-> IF Started(l) THEN <<>> ELSE requested[l]]
    /\ nScroll' = [l \in L |->
            IF ~Started(l) THEN nScroll[l]
            ELSE IF ReturnsEmpty(l) THEN 0 ELSE 1]
    /\ stitched' = [l \in L |-> IF Started(l) THEN NoRaster ELSE stitched[l]]
    /\ attempt' = [l \in L |-> IF Started(l) THEN 0 ELSE attempt[l]]
    /\ failures' = [l \in L |-> IF Started(l) THEN {} ELSE failures[l]]
    /\ sink' = { m \in sink : ~Started(m.l) }
    /\ UNCHANGED <<pdfVars, a85Vars, bgVars, doc, pngPending>>

(***************************************************************************)
(* captureFullPage: `await wait(150)` is over; the capture-viewport        *)
(* request is sent.                                                        *)
(***************************************************************************)
WaitDone(l) ==
    /\ pc[l] = "wait"
    /\ requested' = [requested EXCEPT ![l] = Append(@, currentY[l])]
    /\ pc' = [pc EXCEPT ![l] = "capture"]
    /\ UNCHANGED <<pdfVars, a85Vars, bgVars, doc, scrollY, isRunning, originalScrollY,
                   currentY, slices, nScroll, stitched, attempt, pngPending,
                   sink, failures, runId, lastExit, msgs>>

\* if (!dataUrl) { ...; break; }  -- only the first script has the check
AbsentBreaks(l) == l = 1

\* The capture-viewport request rejects (unnamed/part_001 returns the
\* promise of captureVisibleTab; sendMessage itself may reject): the await
\* throws out of captureFullPage, past the restoring scrollTo, into the
\* listener's catch.
CaptureRejected(l) ==
    /\ pc[l] = "capture"
    /\ Exit(l, "failed")
    /\ UNCHANGED <<pdfVars, a85Vars, bgVars, doc, scrollY, pngPending, sink, runId, msgs>>

\* The first script's break on an empty result: the loop ends, the scroll
\* position is restored and the slices collected so far are returned.
CaptureAbsent(l) ==
    /\ pc[l] = "capture"
    /\ AbsentBreaks(l)
    /\ scrollY' = HostScroll(originalScrollY[l])
    /\ IF Len(slices[l]) = 0 /\ EmptyCheck(l)
       THEN Exit(l, "empty")
       ELSE /\ pc' = [pc EXCEPT ![l] = "load"]
            /\ failures' = [failures EXCEPT ![l] = @ \cup {"capture"}]
            /\ nScroll' = [nScroll EXCEPT ![l] = @ + 1]
            /\ UNCHANGED <<isRunning, lastExit, originalScrollY, currentY,
                           slices, requested, stitched, attempt>>
    /\ UNCHANGED <<pdfVars, a85Vars, bgVars, doc, pngPending, sink, runId, msgs>>

\* slices.push({ y: currentY, dataUrl }); currentY += viewportHeight; then
\* the loop condition: scroll on, or restore the scroll position and return.
\* The second script pushes an empty result like any other.
CaptureTile(l, url) ==
    /\ pc[l] = "capture"
    /\ url = "null" => ~AbsentBreaks(l)
    /\ LET y == currentY[l] + getDocumentMetrics.viewportHeight
       IN  /\ slices' = [slices EXCEPT ![l] =
                   Append(@, [y |-> currentY[l], dataUrl |-> url,
                              w |-> NaturalWidth, h |-> NaturalHeight])]
           /\ currentY' = [currentY EXCEPT ![l] = y]
           /\ nScroll' = [nScroll EXCEPT ![l] = @ + 1]
           /\ IF LoopCond(y)
              THEN /\ scrollY' = HostScroll(y)
                   /\ pc' = [pc EXCEPT ![l] = "wait"]
              ELSE /\ scrollY' = HostScroll(originalScrollY[l])
                   /\ pc' = [pc EXCEPT ![l] = "load"]
    /\ failures' = [failures EXCEPT ![l] =
            IF url = "null" THEN @ \cup {"capture"} ELSE @]
    /\ UNCHANGED <<pdfVars, a85Vars, bgVars, doc, isRunning, originalScrollY, requested,
                   stitched, attempt, pngPending, sink, runId, lastExit, msgs>>

(***************************************************************************)
(* stitchImages.                                                           *)
(***************************************************************************)
\* An image without pixels does not decode: img.onerror fires.
ZeroSizedNever(t) == FALSE
ZeroSized(t) == t.w = 0 \/ t.h = 0

\* createImage(s.dataUrl) rejects for an empty result and for an image that
\* does not decode; images[0] of an empty list is undefined and reading its
\* naturalWidth throws.
LoadFails(l) ==
    \/ Len(slices[l]) = 0
    \/ \E i \in 1..Len(slices[l]) :
           slices[l][i].dataUrl = "null" \/ ZeroSized(slices[l][i])

\* const pixelWidth = images[0].naturalWidth
pixelWidthLast(l) == slices[l][Len(slices[l])].w
pixelWidth(l) == slices[l][1].w

\* const totalPixelHeight = toPixels(cssTotalHeight)
totalPixelHeightCss == getDocumentMetrics.totalHeight
totalPixelHeight == toPixels(getDocumentMetrics.totalHeight)

\* const pixelViewportHeight = images[0].naturalHeight
pixelViewportHeight(l) == slices[l][1].h

\* const destY = toPixels(cssY)
destY(l, i) == toPixels(slices[l][i].y)

\* remaining = totalPixelHeight - destY;
\* if (remaining < pixelViewportHeight) srcH = Math.max(0, remaining);
srcH(l, i) ==
    LET remaining == totalPixelHeight - destY(l, i)
    IN  IF remaining < pixelViewportHeight(l)
        THEN Max(0, remaining)
        ELSE pixelViewportHeight(l)

\* The draw loop; drawImage of tile `bad` throws (bad = 0: none does).
\* drawImage clips a source rectangle that reaches beyond the image to the
\* image, so `rows` rows of the tile are copied to destY..destY+rows-1.
Draws(l, bad) ==
    [i \in 1..Len(slices[l]) |->
        [destY |-> destY(l, i), srcH |-> srcH(l, i),
         drawn |-> srcH(l, i) > 0 /\ i # bad,
         rows |-> IF srcH(l, i) > 0 /\ i # bad
                  THEN Min(srcH(l, i), slices[l][i].h) ELSE 0]]

\* try { ctx.drawImage(...) } catch (e) { console.error(...) }  -- only the
\* first script catches
DrawCaught(l) == l = 1

\* ctx.fillStyle = 'white'; ctx.fillRect(...)  -- only the first script fills
WhiteFill(l) == l = 1

\* stitched.image.toBlob(async (blob) => {... save-pdf ...}, 'image/png')
\* -- the PNG test save, only in the first script
PngTestSave(l) == l = 1

\* The images have loaded (or one failed to).  Then, without suspension:
\* the canvas, the draw loop, the PNG test save's toBlob, and
\* renderPdfFromImage up to its first await in canvasToJpegUint8Array.
ImagesLoaded(l, bad) ==
    /\ pc[l] = "load"
    /\ IF LoadFails(l)
       THEN /\ bad = 0
            /\ Exit(l, "failed")
            /\ UNCHANGED pngPending
       ELSE /\ bad \in 0..Len(slices[l])
            /\ bad # 0 => srcH(l, bad) > 0
            /\ IF bad # 0 /\ ~DrawCaught(l)
               THEN /\ Exit(l, "failed")
                    /\ UNCHANGED pngPending
               ELSE /\ failures' = [failures EXCEPT ![l] =
                            IF bad # 0 THEN @ \cup {"draw"} ELSE @]
                    /\ stitched' = [stitched EXCEPT ![l] =
                            [done |-> TRUE, pixelWidth |-> pixelWidth(l),
                             pixelHeight |-> totalPixelHeight,
                             fill |-> WhiteFill(l), draws |-> Draws(l, bad)]]
                    /\ pngPending' = IF PngTestSave(l)
                                     THEN pngPending \cup {<<l, runId[l]>>}
                                     ELSE pngPending
                    /\ attempt' = [attempt EXCEPT ![l] = 1]
                    /\ pc' = [pc EXCEPT ![l] = "encode"]
                    /\ UNCHANGED <<isRunning, lastExit, originalScrollY,
                                   currentY, slices, requested, nScroll>>
    /\ UNCHANGED <<pdfVars, a85Vars, bgVars, doc, scrollY, sink, runId, msgs>>

(***************************************************************************)
(* renderPdfFromImage / createPdfFromCanvas.                               *)
(***************************************************************************)
\* The first script: createPdfFromCanvas at 0.92, on failure at 0.5, on
\* failure again on a 200x200 test canvas at 0.8.  The second script: one
\* attempt at 0.92.
MaxAttempts(l) == IF l = 1 THEN 3 ELSE 1

\* What the attempt encodes: the stitched canvas, or the test canvas.
ImageOf(l, n) == IF l = 1 /\ n = 3 THEN "test" ELSE "stitched"

\* Math.round(a / b) for positive integers
RoundDiv(a, b) == (2 * a + b) \div (2 * b)

\* const maxPdfDimension = 14400
maxPdfDimension == 14400

\* createPdfFromCanvas: pdfWidth, pdfHeight.
\*   scale = Math.min(maxPdfDimension / pixelWidth, maxPdfDimension / pixelHeight)
\*   pdfWidth = Math.round(pixelWidth * scale), pdfHeight likewise
ScaledDims(pw, ph) ==
    IF pw > maxPdfDimension \/ ph > maxPdfDimension
    THEN IF pw >= ph
         THEN <<RoundDiv(pw * maxPdfDimension, pw),
                RoundDiv(ph * maxPdfDimension, pw)>>
         ELSE <<RoundDiv(pw * maxPdfDimension, ph),
                RoundDiv(ph * maxPdfDimension, ph)>>
    ELSE <<pw, ph>>

\* The width and height handed to addPageWithImage (the MediaBox).  The
\* first script scales, its third attempt is the 200 x 200 test canvas; the
\* second script hands over the pixel dimensions as they are.
Scales(l) == l = 1

PageDims(l, n) ==
    IF ImageOf(l, n) = "test" THEN <<200, 200>>
    ELSE IF Scales(l)
    THEN ScaledDims(stitched[l].pixelWidth, stitched[l].pixelHeight)
    ELSE <<stitched[l].pixelWidth, stitched[l].pixelHeight>>

SaveMsg(l, run, kind, image, page) ==
    [l |-> l, run |-> run, kind |-> kind, image |-> image, page |-> page]

\* The JPEG bytes are there; the document is built and serialized and the
\* save-pdf message is sent.
PdfProduced(l) ==
    /\ pc[l] = "encode"
    /\ sink' = sink \cup {SaveMsg(l, runId[l], "pdf", ImageOf(l, attempt[l]),
                                  PageDims(l, attempt[l]))}
    /\ pc' = [pc EXCEPT ![l] = "save"]
    /\ UNCHANGED <<pdfVars, a85Vars, bgVars, doc, scrollY, isRunning, originalScrollY,
                   currentY, slices, requested, nScroll, stitched, attempt,
                   pngPending, failures, runId, lastExit, msgs>>

\* createPdfFromCanvas throws (ascii85Encode or serialize on an image too
\* large): the next attempt starts, or the error reaches the listener.
PdfFailed(l) ==
    /\ pc[l] = "encode"
    /\ IF attempt[l] < MaxAttempts(l)
       THEN /\ attempt' = [attempt EXCEPT ![l] = @ + 1]
            /\ failures' = [failures EXCEPT ![l] = @ \cup {"encode"}]
            /\ UNCHANGED <<isRunning, pc, lastExit, originalScrollY, currentY,
                           slices, requested, nScroll, stitched>>
       ELSE Exit(l, "failed")
    /\ UNCHANGED <<pdfVars, a85Vars, bgVars, doc, scrollY, pngPending, sink, runId, msgs>>

\* canvas.toBlob calls back with null (a canvas too large for the encoder):
\* reader.readAsArrayBuffer(null) throws inside the callback, outside the
\* promise's executor, and canvasToJpegUint8Array has no reject: the promise
\* never settles and the run stays suspended in its await.  Nothing can
\* resume the frame, so its locals are out of reach from here on.
BlobNull(l) ==
    /\ pc[l] = "encode"
    /\ pc' = [pc EXCEPT ![l] = "hung"]
    /\ originalScrollY' = [originalScrollY EXCEPT ![l] = 0]
    /\ currentY' = [currentY EXCEPT ![l] = 0]
    /\ slices' = [slices EXCEPT ![l] = <<>>]
    /\ requested' = [requested EXCEPT ![l] = <<>>]
    /\ nScroll' = [nScroll EXCEPT ![l] = 0]
    /\ stitched' = [stitched EXCEPT ![l] = NoRaster]
    /\ attempt' = [attempt EXCEPT ![l] = 0]
    /\ failures' = [failures EXCEPT ![l] = {}]
    /\ UNCHANGED <<pdfVars, a85Vars, bgVars, doc, scrollY, isRunning, pngPending,
                   sink, runId, lastExit, msgs>>

\* The save-pdf message is answered (background.js rethrows a failed
\* download, so the await may throw).
SaveAnswered(l, ok) ==
    /\ pc[l] = "save"
    /\ Exit(l, IF ok THEN "delivered" ELSE "saveFailed")
    /\ UNCHANGED <<pdfVars, a85Vars, bgVars, doc, scrollY, pngPending, sink, runId, msgs>>

\* The toBlob callback of the PNG test save: the PNG bytes of the stitched
\* canvas are sent as a save-pdf message.
PngSave(l, run) ==
    /\ <<l, run>> \in pngPending
    /\ pngPending' = pngPending \ {<<l, run>>}
    /\ sink' = sink \cup {SaveMsg(l, run, "png", "stitched", <<>>)}
    /\ UNCHANGED <<pdfVars, a85Vars, bgVars, doc, scrollY, isRunning, pc, originalScrollY,
                   currentY, slices, requested, nScroll, stitched, attempt,
                   failures, runId, lastExit, msgs>>

Next ==
    \/ StartCapture
    \/ \E l \in L : WaitDone(l)
    \/ \E l \in L : CaptureRejected(l)
    \/ \E l \in L : CaptureAbsent(l)
    \/ \E l \in L, url \in {"data", "null"} : CaptureTile(l, url)
    \/ \E l \in L, bad \in {0, 1} : ImagesLoaded(l, bad)
    \/ \E l \in L : PdfProduced(l)
    \/ \E l \in L : PdfFailed(l)
    \/ \E l \in L : BlobNull(l)
    \/ \E l \in L, ok \in BOOLEAN : SaveAnswered(l, ok)
    \/ \E l \in L, run \in 1..MaxMsgs : PngSave(l, run)

Spec == Init /\ [][Next]_vars

\* Every step of listener l's run that answers an await: the timer, the
\* capture-viewport response, the image loads, the toBlob callback, the
\* save-pdf response.
Respond(l) ==
    \/ WaitDone(l)
    \/ CaptureRejected(l)
    \/ CaptureAbsent(l)
    \/ \E url \in {"data", "null"} : CaptureTile(l, url)
    \/ \E bad \in {0, 1} : ImagesLoaded(l, bad)
    \/ PdfProduced(l)
    \/ PdfFailed(l)
    \/ BlobNull(l)
    \/ \E ok \in BOOLEAN : SaveAnswered(l, ok)

\* Every external call eventually responds, with a result or a failure.
LiveSpec == Init /\ [][Next]_vars /\ \A l \in L : WF_vars(Respond(l))

(***************************************************************************)
(* stitchImages and renderPdfFromImage on their own: a run of each script  *)
(* stands right after captureFullPage has returned, with a tile list that  *)
(* need not come from the capture loop (tiles of other sizes, at other     *)
(* offsets).  Both scripts are given the same list.                        *)
(***************************************************************************)
MaxTiles == 2

\* <<totalHeight, viewportHeight, dprNum, dprDen>>: dpr 1 with an exact fit,
\* dpr 2 with a partial last tile, dpr 3/2 with viewportHeight * dpr whole
\* and not whole, a page of one row, and a page taller than the largest PDF
\* page.
StitchDocTuples ==
    { <<4, 2, 1, 1>>, <<3, 2, 2, 1>>, <<4, 2, 3, 2>>, <<2, 1, 3, 2>>,
      <<6, 2, 1, 1>>, <<1, 1, 1, 1>>, <<20000, 10000, 1, 1>> }

StitchDocs ==
    { [totalHeight |-> t[1], viewportHeight |-> t[2],
       dprNum |-> t[3], dprDen |-> t[4]] : t \in StitchDocTuples }

\* Offsets of the tiles: the first two steps of the loop, and one off them.
TileOffsets == {0, doc.viewportHeight, doc.viewportHeight + 1}

\* <<naturalWidth, naturalHeight>> of a tile: the viewport's, a taller one,
\* a wider one (wider than the largest PDF page), none.
TileShapes ==
    { <<NaturalWidth, NaturalHeight>>, <<NaturalWidth, NaturalHeight + 1>>,
      <<30000, NaturalHeight>>, <<0, 0>> }

Tiles ==
    { [y |-> y, dataUrl |-> "data", w |-> sh[1], h |-> sh[2]] :
          y \in TileOffsets, sh \in TileShapes }

\* Tile lists in strictly increasing offset order.
TileLists ==
    { tl \in UNION { [1..n -> Tiles] : n \in 0..MaxTiles } :
          \A i \in 1..(Len(tl) - 1) : tl[i].y < tl[i + 1].y }

StitchInit ==
    /\ doc \in StitchDocs
    /\ \E tl \in TileLists :
           /\ slices = [l \in L |-> tl]
           /\ requested = [l \in L |-> [i \in 1..Len(tl) |-> tl[i].y]]
    /\ scrollY = 0
    /\ isRunning = [l \in L |-> TRUE]
    /\ pc = [l \in L |-> "load"]
    /\ originalScrollY = [l \in L |-> 0]
    /\ currentY = [l \in L |-> 0]
    /\ nScroll = [l \in L |-> 0]
    /\ stitched = [l \in L |-> NoRaster]
    /\ attempt = [l \in L |-> 0]
    /\ pngPending = {}
    /\ sink = {}
    /\ failures = [l \in L |-> {}]
    /\ runId = [l \in L |-> 1]
    /\ lastExit = [l \in L |-> "none"]
    /\ msgs = 1
    /\ Constructed
    /\ BgIdle
    /\ NotEncoding

StitchNext ==
    \/ \E l \in L, bad \in {0, 1} : ImagesLoaded(l, bad)
    \/ \E l \in L : PdfProduced(l)
    \/ \E l \in L : PdfFailed(l)

StitchSpec == StitchInit /\ [][StitchNext]_vars

(***************************************************************************)
(* ascii85Encode (popup.js:620-653, and its copy at 910-943).  JavaScript  *)
(* shifts and ORs work on 32-bit signed integers; % keeps the sign of the  *)
(* dividend; String.fromCharCode takes its argument modulo 2^16.           *)
(***************************************************************************)
MaxBytes == 5

\* Byte values the inputs are built from: zero, a small value, the first
\* value with the top bit set, the largest.
ByteVals == {0, 65, 128, 255}

ByteSeqs == UNION { [1..n -> ByteVals] : n \in 0..MaxBytes }

\* tuple << 8, as a 32-bit signed integer
Shl8(tuple) ==
    LET low == tuple % 16777216
    IN  IF low >= 8388608 THEN (low - 16777216) * 256 ELSE low * 256

\* a % b of JavaScript for b > 0: the sign of a
JsRem(a, b) ==
    LET m == a % b
    IN  IF a >= 0 \/ m = 0 THEN m ELSE m - b

\* String.fromCharCode(c): the code unit ToUint16(c)
fromCharCode(c) == c % 65536

\* for (j = 0; j < n; j++) {
\*   enc = String.fromCharCode((tuple % 85) + 33) + enc;
\*   tuple = Math.floor(tuple / 85); }
RECURSIVE EncLoop(_, _)
EncLoop(tuple, n) ==
    IF n = 0 THEN <<>>
    ELSE EncLoop(tuple \div 85, n - 1)
             \o <<fromCharCode(JsRem(tuple, 85) + 33)>>

\* for (let i = count; i < 4; i++) tuple <<= 8;
RECURSIVE PadLoop(_, _)
PadLoop(tuple, i) ==
    IF i < 4 THEN PadLoop(Shl8(tuple), i + 1) ELSE tuple

\* if (tuple === 0) output += 'z'
isZeroNever(tuple) == FALSE
isZero(tuple) == tuple = 0

\* return output + '~>'
eofMarkerNone == <<>>
eofMarker == <<126, 62>>

\* The loop over the bytes from index i on (1-based), then the partial
\* group and the EOF marker '~>'.
RECURSIVE ByteLoop(_, _, _, _, _)
ByteLoop(b, i, tuple, count, output) ==
    IF i > Len(b)
    THEN (IF count > 0
          THEN output \o EncLoop(PadLoop(tuple, count), count + 1)
          ELSE output) \o eofMarker
    ELSE LET t == Shl8(tuple) + b[i]
         IN  IF count + 1 = 4
             THEN ByteLoop(b, i + 1, 0, 0,
                      output \o (IF isZero(t) THEN <<122>> ELSE EncLoop(t, 5)))
             ELSE ByteLoop(b, i + 1, t, count + 1, output)

ascii85Encode(b) == ByteLoop(b, 1, 0, 0, <<>>)

\* The capture pipeline at rest on one page.
Parked == doc = Doc1801 /\ CaptureIdle

A85Init ==
    /\ Parked
    /\ Constructed
    /\ BgIdle
    /\ bytes \in ByteSeqs
    /\ encoded = NoCall

\* const ascii85 = ascii85Encode(jpegBytes)
Encode ==
    /\ ~encoded.done
    /\ encoded' = [done |-> TRUE, str |-> ascii85Encode(bytes)]
    /\ UNCHANGED <<captureVars, pdfVars, bgVars, bytes>>

A85Next == Encode

A85Spec == A85Init /\ [][A85Next]_vars

(***************************************************************************)
(* MinimalPdf (popup.js:513-611, and its copy at 835-901) and              *)
(* encodePdfString.  A string is the sequence of its UTF-16 code units;    *)
(* the literal pieces of the templates are spelled out as such.            *)
(***************************************************************************)
\* Object numbers one document may issue.
MaxObjs == 8

\* Object bodies handed to addObject: an ASCII character, a 2-byte
\* character, a 3-byte character and a surrogate pair (4 bytes).
Strs == { <<65, 233, 8364, 55357, 56832>> }

\* JPEG bytes handed to addJpegImage: a full group and a partial one of
\* small bytes; the first four bytes of a JPEG file.
JpegSamples == { <<65, 66, 67, 68, 69>>, <<255, 216, 255, 224>> }

\* <<width, height>> of the image and of the page.
Sizes == { <<12, 5>> }

\* '%PDF-1.4\n'
PdfHeader ==
    <<37, 80, 68, 70, 45, 49, 46, 52, 10>>

\* ' 0 obj\n'
ObjOpen ==
    <<32, 48, 32, 111, 98, 106, 10>>

\* '\nendobj\n'
ObjClose ==
    <<10, 101, 110, 100, 111, 98, 106, 10>>

\* '\nstream\n'
StreamOpen ==
    <<10, 115, 116, 114, 101, 97, 109, 10>>

\* '\nendstream'
StreamClose ==
    <<10, 101, 110, 100, 115, 116, 114, 101, 97, 109>>

\* '<< /Type /XObject /Subtype /Image /Width '
ImageDictA ==
    <<60, 60, 32, 47, 84, 121, 112, 101, 32, 47, 88, 79, 98, 106, 101, 99,
    116, 32, 47, 83, 117, 98, 116, 121, 112, 101, 32, 47, 73, 109, 97,
    103, 101, 32, 47, 87, 105, 100, 116, 104, 32>>

\* ' /Height '
ImageDictB ==
    <<32, 47, 72, 101, 105, 103, 104, 116, 32>>

\* ' /ColorSpace /DeviceRGB /BitsPerComponent 8 /Filter [/ASCII85Decode /DCTDecode] /Length '
ImageDictC ==
    <<32, 47, 67, 111, 108, 111, 114, 83, 112, 97, 99, 101, 32, 47, 68,
    101, 118, 105, 99, 101, 82, 71, 66, 32, 47, 66, 105, 116, 115, 80,
    101, 114, 67, 111, 109, 112, 111, 110, 101, 110, 116, 32, 56, 32, 47,
    70, 105, 108, 116, 101, 114, 32, 91, 47, 65, 83, 67, 73, 73, 56, 53,
    68, 101, 99, 111, 100, 101, 32, 47, 68, 67, 84, 68, 101, 99, 111, 100,
    101, 93, 32, 47, 76, 101, 110, 103, 116, 104, 32>>

\* ' >>'
DictClose ==
    <<32, 62, 62>>

\* 'q\n'
ContentA ==
    <<113, 10>>

\* ' 0 0 '
ContentB ==
    <<32, 48, 32, 48, 32>>

\* ' 0 0 cm\n/Im1 Do\nQ\n'
ContentC ==
    <<32, 48, 32, 48, 32, 99, 109, 10, 47, 73, 109, 49, 32, 68, 111, 10,
    81, 10>>

\* '<< /Length '
LengthDictA ==
    <<60, 60, 32, 47, 76, 101, 110, 103, 116, 104, 32>>

\* '<< /XObject << /Im1 '
ResourcesA ==
    <<60, 60, 32, 47, 88, 79, 98, 106, 101, 99, 116, 32, 60, 60, 32, 47,
    73, 109, 49, 32>>

\* ' 0 R >> /ProcSet [/PDF /ImageB /ImageC /ImageI] >>'
ResourcesB ==
    <<32, 48, 32, 82, 32, 62, 62, 32, 47, 80, 114, 111, 99, 83, 101, 116,
    32, 91, 47, 80, 68, 70, 32, 47, 73, 109, 97, 103, 101, 66, 32, 47, 73,
    109, 97, 103, 101, 67, 32, 47, 73, 109, 97, 103, 101, 73, 93, 32, 62,
    62>>

\* '<< /Type /Page /Parent '
PageA ==
    <<60, 60, 32, 47, 84, 121, 112, 101, 32, 47, 80, 97, 103, 101, 32, 47,
    80, 97, 114, 101, 110, 116, 32>>

\* ' 0 R /MediaBox [0 0 '
PageB ==
    <<32, 48, 32, 82, 32, 47, 77, 101, 100, 105, 97, 66, 111, 120, 32, 91,
    48, 32, 48, 32>>

\* '] /Contents '
PageC ==
    <<93, 32, 47, 67, 111, 110, 116, 101, 110, 116, 115, 32>>

\* ' 0 R /Resources '
PageD ==
    <<32, 48, 32, 82, 32, 47, 82, 101, 115, 111, 117, 114, 99, 101, 115,
    32>>

\* ' 0 R'
Ref ==
    <<32, 48, 32, 82>>

\* '<< /Type /Pages /Kids [ '
PagesA ==
    <<60, 60, 32, 47, 84, 121, 112, 101, 32, 47, 80, 97, 103, 101, 115,
    32, 47, 75, 105, 100, 115, 32, 91, 32>>

\* ' ] /Count '
PagesB ==
    <<32, 93, 32, 47, 67, 111, 117, 110, 116, 32>>

\* '<< /Type /Catalog /Pages '
CatalogA ==
    <<60, 60, 32, 47, 84, 121, 112, 101, 32, 47, 67, 97, 116, 97, 108,
    111, 103, 32, 47, 80, 97, 103, 101, 115, 32>>

\* 'xref\n0 '
XrefA ==
    <<120, 114, 101, 102, 10, 48, 32>>

\* '\n'
Newline ==
    <<10>>

\* ' '
Space ==
    <<32>>

\* '0000000000 65535 f \n'
XrefFree ==
    <<48, 48, 48, 48, 48, 48, 48, 48, 48, 48, 32, 54, 53, 53, 51, 53, 32,
    102, 32, 10>>

\* ' 00000 n \n'
XrefInUse ==
    <<32, 48, 48, 48, 48, 48, 32, 110, 32, 10>>

\* 'trailer\n<< /Size '
TrailerA ==
    <<116, 114, 97, 105, 108, 101, 114, 10, 60, 60, 32, 47, 83, 105, 122,
    101, 32>>

\* ' /Root '
TrailerB ==
    <<32, 47, 82, 111, 111, 116, 32>>

\* ' 0 R >>\nstartxref\n'
TrailerC ==
    <<32, 48, 32, 82, 32, 62, 62, 10, 115, 116, 97, 114, 116, 120, 114,
    101, 102, 10>>

\* '\n%%EOF'
TrailerD ==
    <<10, 37, 37, 69, 79, 70>>


\* `${n}` for a non-negative integer n
RECURSIVE toString(_)
toString(n) ==
    IF n < 10 THEN <<48 + n>>
    ELSE toString(n \div 10) \o <<48 + (n % 10)>>

\* s.padStart(n, '0')
RECURSIVE padStart(_, _)
padStart(s, n) == IF Len(s) >= n THEN s ELSE padStart(<<48>> \o s, n)

\* TextEncoder.encode: the UTF-8 bytes of the character at index i (none
\* for the second half of a surrogate pair, U+FFFD for a lone surrogate).
IsHigh(c) == c \in 55296..56319
IsLow(c) == c \in 56320..57343

Utf8At(str, i) ==
    LET c == str[i]
    IN  IF c < 128 THEN <<c>>
        ELSE IF c < 2048 THEN <<192 + (c \div 64), 128 + (c % 64)>>
        ELSE IF IsHigh(c) /\ i < Len(str) /\ IsLow(str[i + 1])
        THEN LET cp == 65536 + (c - 55296) * 1024 + (str[i + 1] - 56320)
             IN  <<240 + (cp \div 262144), 128 + ((cp \div 4096) % 64),
                   128 + ((cp \div 64) % 64), 128 + (cp % 64)>>
        ELSE IF IsLow(c) /\ i > 1 /\ IsHigh(str[i - 1]) THEN <<>>
        ELSE IF IsHigh(c) \/ IsLow(c) THEN <<239, 191, 189>>
        ELSE <<224 + (c \div 4096), 128 + ((c \div 64) % 64), 128 + (c % 64)>>

RECURSIVE Utf8Range(_, _, _)
Utf8Range(str, lo, hi) ==
    IF lo > hi THEN <<>>
    ELSE IF lo = hi THEN Utf8At(str, lo)
    ELSE LET mid == (lo + hi) \div 2
         IN  Utf8Range(str, lo, mid) \o Utf8Range(str, mid + 1, hi)

\* function encodePdfString(str) { return new TextEncoder().encode(str); }
encodePdfString(str) == Utf8Range(str, 1, Len(str))

\* addObject(str) { const id = this.nextObjectId();
\*                  this.objects.push({ id, str }); return id; }
addObject(objs, n, str) ==
    [objects |-> Append(objs, [id |-> n, str |-> str]),
     nextId |-> nextObjectId(n), id |-> n]

\* addJpegImage: the text of the image object
ImageObject(jpegBytes, width, height) ==
    LET ascii85 == ascii85Encode(jpegBytes)
        dict == ImageDictA \o toString(width) \o ImageDictB
                    \o toString(height) \o ImageDictC
                    \o toString(Len(ascii85)) \o DictClose
    IN  dict \o StreamOpen \o ascii85 \o StreamClose

\* addPageWithImage: the content stream and the three objects
PageContent(width, height) ==
    ContentA \o toString(width) \o ContentB \o toString(height) \o ContentC

ContentsObject(width, height) ==
    LET content == PageContent(width, height)
    IN  LengthDictA \o toString(Len(content)) \o DictClose
            \o StreamOpen \o content \o StreamClose

ResourcesObject(imageObjectId) ==
    ResourcesA \o toString(imageObjectId) \o ResourcesB

PageObject(width, height, contentsId, resourcesId) ==
    PageA \o toString(pagesId) \o PageB \o toString(width) \o Space
        \o toString(height) \o PageC \o toString(contentsId) \o PageD
        \o toString(resourcesId) \o Ref \o DictClose

\* this.pages.map((id) => `${id} 0 R`).join(' ')
RECURSIVE Kids(_)
Kids(ps) ==
    IF ps = <<>> THEN <<>>
    ELSE IF Len(ps) = 1 THEN toString(ps[1]) \o Ref
    ELSE toString(ps[1]) \o Ref \o Space \o Kids(Tail(ps))

pagesObj ==
    PagesA \o Kids(pages) \o PagesB \o toString(Len(pages)) \o DictClose

catalogObj == CatalogA \o toString(pagesId) \o Ref \o DictClose

\* this.objects.unshift(o)
push(objs, o) == Append(objs, o)
unshift(objs, o) == <<o>> \o objs

\* `${obj.id} 0 obj\n${obj.str}\nendobj\n`
ObjectText(obj) == toString(obj.id) \o ObjOpen \o obj.str \o ObjClose

\* write(s): offset += enc.length, enc the encoded bytes of s
offsetStepChars(s) == Len(s)
offsetStep(s) == Len(encodePdfString(s))

\* for (const obj of this.objects) { positions.push(offset); write(...); }
\* from object k on, then xrefStart = offset: the positions of the objects
\* followed by xrefStart.
RECURSIVE ObjectLoop(_, _, _)
ObjectLoop(objs, k, offset) ==
    IF k > Len(objs) THEN <<offset>>
    ELSE <<offset>>
             \o ObjectLoop(objs, k + 1,
                           offset + offsetStep(ObjectText(objs[k])))

\* write('%PDF-1.4\n') and the loop
Offsets(objs) == ObjectLoop(objs, 1, offsetStep(PdfHeader))

\* `xref\n0 ${this.objects.length + 1}\n` and the trailer's /Size
xrefCountShort(objs) == Len(objs)
xrefCount(objs) == Len(objs) + 1

\* The strings handed to write(), in order.
Writes(objs) ==
    LET offs == Offsets(objs)
        pos == SubSeq(offs, 1, Len(objs))
        xrefStart == offs[Len(objs) + 1]
    IN  <<PdfHeader>>
        \o [i \in 1..Len(objs) |-> ObjectText(objs[i])]
        \o <<XrefA \o toString(xrefCount(objs)) \o Newline, XrefFree>>
        \o [i \in 1..Len(objs) |-> padStart(toString(pos[i]), 10) \o XrefInUse]
        \o <<TrailerA \o toString(xrefCount(objs)) \o TrailerB
                \o toString(catalogId) \o TrailerC \o toString(xrefStart)
                \o TrailerD>>

\* The chunks copied one after the other into the returned buffer.
RECURSIVE Chunks(_, _)
Chunks(ws, k) ==
    IF k = 0 THEN <<>> ELSE Chunks(ws, k - 1) \o encodePdfString(ws[k])

\* serialize(): this.objects afterwards, and the returned buffer
serialize ==
    LET objs == unshift(unshift(objects, [id |-> pagesId, str |-> pagesObj]),
                        [id |-> catalogId, str |-> catalogObj])
        ws == Writes(objs)
    IN  [objects |-> objs, bytes |-> Chunks(ws, Len(ws))]

\* The capture pipeline and the encoder at rest, a document just built.
PdfInit ==
    /\ Parked
    /\ NotEncoding
    /\ Constructed
    /\ BgIdle

\* const pdf = new MinimalPdf()  -- createPdfFromCanvas starts a document
NewPdf ==
    /\ out.done
    /\ objects' = constructor.objects
    /\ pages' = constructor.pages
    /\ nextId' = constructor.nextId
    /\ catalogId' = constructor.catalogId
    /\ pagesId' = constructor.pagesId
    /\ out' = NoOut
    /\ UNCHANGED <<captureVars, a85Vars, bgVars>>

AddObject(str) ==
    /\ ~out.done
    /\ nextId <= MaxObjs
    /\ LET r == addObject(objects, nextId, str)
       IN  /\ objects' = r.objects
           /\ nextId' = r.nextId
    /\ UNCHANGED <<pages, catalogId, pagesId, out, captureVars, a85Vars, bgVars>>

AddJpegImage(jpegBytes, width, height) ==
    /\ ~out.done
    /\ nextId <= MaxObjs
    /\ LET r == addObject(objects, nextId,
                          ImageObject(jpegBytes, width, height))
       IN  /\ objects' = r.objects
           /\ nextId' = r.nextId
    /\ UNCHANGED <<pages, catalogId, pagesId, out, captureVars, a85Vars, bgVars>>

\* this.pages.push(pageId)
pagesUnshift(ps, id) == <<id>> \o ps
pagesPush(ps, id) == Append(ps, id)

\* imageObjectId is the ID issued last (createPdfFromCanvas hands over what
\* addJpegImage has just returned).
AddPageWithImage(imageObjectId, width, height) ==
    /\ ~out.done
    /\ nextId + 2 <= MaxObjs
    /\ LET c == addObject(objects, nextId, ContentsObject(width, height))
           r == addObject(c.objects, c.nextId, ResourcesObject(imageObjectId))
           p == addObject(r.objects, r.nextId,
                          PageObject(width, height, c.id, r.id))
       IN  /\ objects' = p.objects
           /\ nextId' = p.nextId
           /\ pages' = pagesPush(pages, p.id)
    /\ UNCHANGED <<catalogId, pagesId, out, captureVars, a85Vars, bgVars>>

\* createPdfFromCanvas serializes each document once.
Serialize ==
    /\ ~out.done
    /\ LET r == serialize
       IN  /\ objects' = r.objects
           /\ out' = [done |-> TRUE, bytes |-> r.bytes]
    /\ UNCHANGED <<pages, nextId, catalogId, pagesId, captureVars, a85Vars, bgVars>>

PdfNext ==
    \/ NewPdf
    \/ \E str \in Strs : AddObject(str)
    \/ \E b \in JpegSamples, s \in Sizes : AddJpegImage(b, s[1], s[2])
    \/ \E s \in Sizes : AddPageWithImage(nextId - 1, s[1], s[2])
    \/ Serialize

PdfSpec == PdfInit /\ [][PdfNext]_vars

(***************************************************************************)
(* The capture-viewport handler of the background script.  The repository  *)
(* holds two background scripts: background.js (handler 1) and             *)
(* unnamed/part_001 (handler 2); one of them is loaded.  Strings are       *)
(* sequences of code units; a value is a string, null or undefined.        *)
(***************************************************************************)
\* URLs of the sender's tab:
\*    1  https://example.com/a
\*    2  http://localhost:8080/a
\*    3  https://example.com/addons.mozilla.org
\*    4  about:blank
\*    5  chrome://browser/content/
\*    6  resource://gre/x
\*    7  moz-extension://abc/page.html
\*    8  view-source:https://example.com/
\*    9  data:text/html,hi
\*   10  https://addons.mozilla.org/firefox/
TabUrls ==
    <<
      <<104, 116, 116, 112, 115, 58, 47, 47, 101, 120, 97, 109, 112,
        108, 101, 46, 99, 111, 109, 47, 97>>,
      <<104, 116, 116, 112, 58, 47, 47, 108, 111, 99, 97, 108, 104,
        111, 115, 116, 58, 56, 48, 56, 48, 47, 97>>,
      <<104, 116, 116, 112, 115, 58, 47, 47, 101, 120, 97, 109, 112,
        108, 101, 46, 99, 111, 109, 47, 97, 100, 100, 111, 110, 115,
        46, 109, 111, 122, 105, 108, 108, 97, 46, 111, 114, 103>>,
      <<97, 98, 111, 117, 116, 58, 98, 108, 97, 110, 107>>,
      <<99, 104, 114, 111, 109, 101, 58, 47, 47, 98, 114, 111, 119,
        115, 101, 114, 47, 99, 111, 110, 116, 101, 110, 116, 47>>,
      <<114, 101, 115, 111, 117, 114, 99, 101, 58, 47, 47, 103, 114,
        101, 47, 120>>,
      <<109, 111, 122, 45, 101, 120, 116, 101, 110, 115, 105, 111, 110,
        58, 47, 47, 97, 98, 99, 47, 112, 97, 103, 101, 46, 104, 116,
        109, 108>>,
      <<118, 105, 101, 119, 45, 115, 111, 117, 114, 99, 101, 58, 104,
        116, 116, 112, 115, 58, 47, 47, 101, 120, 97, 109, 112, 108,
        101, 46, 99, 111, 109, 47>>,
      <<100, 97, 116, 97, 58, 116, 101, 120, 116, 47, 104, 116, 109,
        108, 44, 104, 105>>,
      <<104, 116, 116, 112, 115, 58, 47, 47, 97, 100, 100, 111, 110,
        115, 46, 109, 111, 122, 105, 108, 108, 97, 46, 111, 114, 103,
        47, 102, 105, 114, 101, 102, 111, 120, 47>>
    >>

Urls == { TabUrls[k] : k \in 1..Len(TabUrls) }

\* The sender's tab: none, a tab whose url the host does not disclose, or
\* a tab at one of the URLs above.
Senders ==
    { NoSender, [tab |-> TRUE, hasUrl |-> FALSE, url |-> <<>>] }
        \cup { [tab |-> TRUE, hasUrl |-> TRUE, url |-> u] : u \in Urls }

\* const prohibitedSchemes = [ 'about:', 'chrome:', 'resource:',
\*   'moz-extension:', 'chrome-extension:', 'view-source:', 'data:' ]
prohibitedSchemes ==
    << <<97, 98, 111, 117, 116, 58>>,
       <<99, 104, 114, 111, 109, 101, 58>>,
       <<114, 101, 115, 111, 117, 114, 99, 101, 58>>,
       <<109, 111, 122, 45, 101, 120, 116, 101, 110, 115, 105, 111, 110, 58>>,
       <<99, 104, 114, 111, 109, 101, 45, 101, 120, 116, 101, 110, 115, 105,
111, 110, 58>>,
       <<118, 105, 101, 119, 45, 115, 111, 117, 114, 99, 101, 58>>,
       <<100, 97, 116, 97, 58>> >>

\* url.startsWith(prefix)
startsWith(str, prefix) ==
    /\ Len(prefix) <= Len(str)
    /\ SubSeq(str, 1, Len(prefix)) = prefix

\* '://'
SchemeSep == <<58, 47, 47>>

\* new URL(url).hostname for the URLs of tabs: what stands between '://'
\* and the next '/', without a port; a string without '://' has none (for
\* a string that is no URL the constructor throws).
RECURSIVE UpTo(_, _, _)
UpTo(str, i, stops) ==
    IF i > Len(str) \/ str[i] \in stops THEN <<>>
    ELSE <<str[i]>> \o UpTo(str, i + 1, stops)

hostname(url) ==
    LET seps == { i \in 1..(Len(url) - 2) : SubSeq(url, i, i + 2) = SchemeSep }
    IN  IF seps = {} THEN <<>>
        ELSE LET i == CHOOSE j \in seps : \A k \in seps : j <= k
             IN  UpTo(url, i + 3, {47, 58, 63, 35})

\* 'addons.mozilla.org'
AddonsHost ==
    <<97, 100, 100, 111, 110, 115, 46, 109, 111, 122, 105, 108, 108,
    97, 46, 111, 114, 103>>


\* function isCaptureProhibitedUrl(url): false for no string, true for a
\* prohibited scheme or the host addons.mozilla.org, false when the URL
\* does not parse.
isCaptureProhibitedUrl(tab) ==
    /\ tab.hasUrl
    /\ tab.url # <<>>
    /\ \/ \E k \in 1..Len(prohibitedSchemes) :
              startsWith(tab.url, prohibitedSchemes[k])
       \/ hostname(tab.url) = AddonsHost

\* 'data:image/'
DataImagePrefix ==
    <<100, 97, 116, 97, 58, 105, 109, 97, 103, 101, 47>>

\* 'data:image/png;base64,iVBOR'
DataPng ==
    <<100, 97, 116, 97, 58, 105, 109, 97, 103, 101, 47, 112, 110, 103,
    59, 98, 97, 115, 101, 54, 52, 44, 105, 86, 66, 79, 82>>

\* 'blob:abc'
BlobUrl ==
    <<98, 108, 111, 98, 58, 97, 98, 99>>

\* What captureVisibleTab may resolve with (a PNG data URL, another
\* string, an empty string, nothing) or its rejection.
Null == [type |-> "null", str |-> <<>>]
Undefined == [type |-> "undefined", str |-> <<>>]
String(str) == [type |-> "string", str |-> str]

CaptureOutcomes ==
    { [kind |-> "value", val |-> String(DataPng)],
      [kind |-> "value", val |-> String(BlobUrl)],
      [kind |-> "value", val |-> String(<<>>)],
      [kind |-> "value", val |-> Undefined],
      [kind |-> "rejected", val |-> Undefined] }

\* if (!dataUrl || typeof dataUrl !== 'string' ||
\*     !dataUrl.startsWith('data:image/')) return null; ... return dataUrl;
\* a rejection is caught: return null
Checked(res) ==
    IF /\ res.kind = "value"
       /\ res.val.type = "string"
       /\ res.val.str # <<>>
       /\ startsWith(res.val.str, DataImagePrefix)
    THEN res
    ELSE [kind |-> "value", val |-> Null]

BgInit ==
    /\ Parked
    /\ Constructed
    /\ NotEncoding
    /\ handler \in {1, 2}
    /\ sender = NoSender
    /\ bpc = "idle"
    /\ hasPermission = "unasked"
    /\ captured = FALSE
    /\ answer = NoAnswer

\* A capture-viewport message arrives.  background.js runs to its first
\* await, browser.tabs.query, or returns null for a prohibited URL;
\* part_001 calls captureVisibleTab and returns its promise.
CaptureViewport(tab) ==
    /\ bpc = "idle"
    /\ answer = NoAnswer
    /\ sender' = tab
    /\ IF handler = 1
       THEN IF tab.tab /\ isCaptureProhibitedUrl(tab)
            THEN /\ answer' = [kind |-> "value", val |-> Null]
                 /\ bpc' = "done"
                 /\ UNCHANGED captured
            ELSE /\ bpc' = "query"
                 /\ UNCHANGED <<answer, captured>>
       ELSE /\ captured' = TRUE
            /\ bpc' = "capturing"
            /\ UNCHANGED answer
    /\ UNCHANGED <<handler, hasPermission, captureVars, pdfVars, a85Vars>>

\* browser.tabs.query has answered or thrown (caught and logged); then
\* browser.permissions.contains is awaited.
QueryAnswered ==
    /\ bpc = "query"
    /\ bpc' = "perm"
    /\ UNCHANGED <<handler, sender, hasPermission, captured, answer,
                   captureVars, pdfVars, a85Vars>>

\* browser.permissions.contains has answered: return null when the
\* permissions are missing; go on when they are there and when the check
\* itself threw.  Then the 100 ms delay is awaited.
PermissionAnswered(p) ==
    /\ bpc = "perm"
    /\ hasPermission' = p
    /\ IF p = "missing"
       THEN /\ answer' = [kind |-> "value", val |-> Null]
            /\ bpc' = "done"
       ELSE /\ bpc' = "delay"
            /\ UNCHANGED answer
    /\ UNCHANGED <<handler, sender, captured, captureVars, pdfVars, a85Vars>>

\* The delay is over: browser.tabs.captureVisibleTab(windowId, ...) is called.
DelayDone ==
    /\ bpc = "delay"
    /\ captured' = TRUE
    /\ bpc' = "capturing"
    /\ UNCHANGED <<handler, sender, hasPermission, answer, captureVars,
                   pdfVars, a85Vars>>

\* captureVisibleTab settles: background.js checks the result, part_001
\* hands it on as it is.
CaptureSettled(res) ==
    /\ bpc = "capturing"
    /\ answer' = IF handler = 1 THEN Checked(res) ELSE res
    /\ bpc' = "done"
    /\ UNCHANGED <<handler, sender, hasPermission, captured, captureVars,
                   pdfVars, a85Vars>>

BgNext ==
    \/ \E tab \in Senders : CaptureViewport(tab)
    \/ QueryAnswered
    \/ \E p \in {"granted", "missing", "throws"} : PermissionAnswered(p)
    \/ DelayDone
    \/ \E res \in CaptureOutcomes : CaptureSettled(res)

BgSpec == BgInit /\ [][BgNext]_vars

(***************************************************************************)
(* Properties.                                                             *)
(***************************************************************************)
\* Save messages the current (or last) run of listener l has handed over.
SentBy(l) == { m \in sink : m.l = l /\ m.run = runId[l] }

\* The capture loop of listener l's run has ended by its loop condition or
\* its break, and the run goes on.
LoopDone(l) == pc[l] \in {"load", "encode", "save"}

\* The multiples of viewportHeight that are <= (totalHeight - viewportHeight) + 1.
ExpectedOffsets ==
    { y \in { k * doc.viewportHeight :
                 k \in 0..(doc.totalHeight \div doc.viewportHeight) } :
        y <= (doc.totalHeight - doc.viewportHeight) + 1 }

\* C1: a start-capture invocation of a listener whose run is in progress is
\* a no-op: it starts no run, sends no scroll and no capture request, hands
\* nothing to the sink and leaves the run's tile list and position as they
\* were.
C1_GuardNoOp ==
    [][\A l \in L :
        (msgs' = msgs + 1 /\ isRunning[l]) =>
            /\ isRunning'[l]
            /\ runId'[l] = runId[l]
            /\ pc'[l] = pc[l]
            /\ slices'[l] = slices[l]
            /\ currentY'[l] = currentY[l]
            /\ requested'[l] = requested[l]
            /\ nScroll'[l] = nScroll[l]
            /\ stitched'[l] = stitched[l]
            /\ attempt'[l] = attempt[l]
            /\ { m \in sink' : m.l = l } = { m \in sink : m.l = l }]_vars

\* Two messages have arrived and listener 1 is still in its first run, with
\* a tile collected: its second invocation was refused by the guard.
C1_Witness ==
    /\ msgs = 2
    /\ runId[1] = 1
    /\ isRunning[1]
    /\ pc[1] = "capture"
    /\ Len(slices[1]) = 1

\* C2: at most one capture request is outstanding at any moment.
C2_OneOutstanding ==
    Cardinality({ l \in L : pc[l] = "capture" }) <= 1

\* C3: whenever a listener's handler has finished, by whatever exit, its
\* isRunning is false, and a start-capture that finds the handler finished
\* starts a new run.
C3_GuardReleased ==
    [][\A l \in L :
        /\ pc'[l] = "idle" => ~isRunning'[l]
        /\ (msgs' = msgs + 1 /\ pc[l] = "idle") => runId'[l] = runId[l] + 1]_vars

\* On a scrollable page listener 1 has started a second run, which it could
\* because its first handler released the guard, and has ended it by the
\* return on empty slices; listener 2 has ended a run by an error; both
\* guards are free.
C3_Witness ==
    /\ doc.totalHeight >= doc.viewportHeight
    /\ runId[1] = 2
    /\ lastExit[1] = "empty"
    /\ lastExit[2] = "failed"
    /\ pc[1] = "idle" /\ pc[2] = "idle"
    /\ ~isRunning[1] /\ ~isRunning[2]

\* C4: a run that got an absent result for a tile request stitches nothing
\* and hands nothing to the sink.
C4_AbsentTileFailsRun ==
    \A l \in L :
        "capture" \in failures[l] => ~stitched[l].done /\ SentBy(l) = {}

\* C5: whenever the capture loop is left, by whatever path, the scroll
\* position is the one captureFullPage saved before the loop.
C5_ScrollRestored ==
    [][\A l \in L :
        (pc[l] \in {"wait", "capture"} /\ pc'[l] \notin {"wait", "capture"})
            => scrollY' = originalScrollY[l]]_vars

\* C6: in a run where no capture has failed, the i-th requested offset is
\* (i-1) * viewportHeight and at most (totalHeight - viewportHeight) + 1,
\* the tiles carry the requested offsets in the same order, and once the
\* loop is done the requested offsets are all of those multiples.
C6_Offsets ==
    \A l \in L :
        "capture" \notin failures[l] =>
            /\ \A i \in 1..Len(requested[l]) :
                /\ requested[l][i] = (i - 1) * doc.viewportHeight
                /\ requested[l][i] \in ExpectedOffsets
            /\ Len(slices[l]) <= Len(requested[l])
            /\ \A i \in 1..Len(slices[l]) : slices[l][i].y = requested[l][i]
            /\ LoopDone(l) =>
                /\ Len(slices[l]) = Len(requested[l])
                /\ { requested[l][i] : i \in 1..Len(requested[l]) }
                       = ExpectedOffsets

\* The loop of listener 1 is done for the page of height 3 and viewport 2:
\* offsets 0 and 2, the second admitted by the +1 tolerance.
C6_Witness ==
    /\ doc.totalHeight = 3 /\ doc.viewportHeight = 2
    /\ pc[1] = "load"
    /\ "capture" \notin failures[1]
    /\ Len(slices[1]) = 2
    /\ slices[1][2].y = 2

\* C7: for viewportHeight 800, totalHeight 1801, dpr 1 a run without
\* failures stitches the offsets 0, 800, 1600 into a raster of height 1801,
\* the last tile clipped to 201 rows.
C7_Example1801 ==
    \A l \in L :
        (doc = Doc1801 /\ stitched[l].done /\ failures[l] = {}) =>
            /\ [i \in 1..Len(slices[l]) |-> slices[l][i].y] = <<0, 800, 1600>>
            /\ stitched[l].pixelHeight = 1801
            /\ stitched[l].draws[Len(slices[l])].srcH = 201

\* C8: in a run whose only failures are failures to produce the document,
\* at most one attempt follows the first, and no image other than the
\* stitched raster is ever put into a delivered document.
C8_OneRetry ==
    /\ \A l \in L : failures[l] \subseteq {"encode"} => attempt[l] <= 2
    /\ \A m \in sink : m.image = "stitched"

\* C9: a run that has failed at capture, stitch or encode has handed nothing
\* to the sink.
C9_NoSaveFromFailedRun ==
    \A l \in L :
        (pc[l] = "idle" /\ lastExit[l] = "failed") => SentBy(l) = {}

\* C10: a run that has met an absent tile or a failed draw is over: none
\* goes on after such a failure.
C10_FailuresTerminal ==
    \A l \in L :
        failures[l] \cap {"capture", "draw"} # {} => pc[l] = "idle"

\* C11: every started run eventually releases its guard.
C11_RunEnds ==
    \A l \in L : isRunning[l] ~> ~isRunning[l]

(***************************************************************************)
(* Reading the serialized file back, for stating C12..C17.  Offsets are    *)
(* byte offsets from the start of the file (0-based).                      *)
(***************************************************************************)
\* 'startxref\n'
StartxrefKw ==
    <<115, 116, 97, 114, 116, 120, 114, 101, 102, 10>>

\* 'endobj\n'
EndobjKw ==
    <<101, 110, 100, 111, 98, 106, 10>>

\* The bytes s stand in buf at offset off.
At(buf, off, s) ==
    /\ off >= 0
    /\ off + Len(s) <= Len(buf)
    /\ SubSeq(buf, off + 1, off + Len(s)) = s

\* The n bytes of buf at offset off are decimal digits / their value.
IsDigits(buf, off, n) ==
    /\ off >= 0
    /\ off + n <= Len(buf)
    /\ \A j \in 1..n : buf[off + j] \in 48..57

RECURSIVE ReadNum(_, _, _)
ReadNum(buf, off, n) ==
    IF n = 0 THEN 0 ELSE ReadNum(buf, off, n - 1) * 10 + (buf[off + n] - 48)

\* The file ends in 'startxref\n<d digits>\n%%EOF'.
FooterDigits(buf) ==
    { d \in 1..10 :
        /\ At(buf, Len(buf) - 16 - d, StartxrefKw)
        /\ IsDigits(buf, Len(buf) - 6 - d, d)
        /\ At(buf, Len(buf) - 6, TrailerD) }

\* At offset xs stands 'xref\n0 <c digits>\n'.
XrefDigits(buf, xs) ==
    { c \in 1..10 :
        /\ At(buf, xs, XrefA)
        /\ IsDigits(buf, xs + Len(XrefA), c)
        /\ At(buf, xs + Len(XrefA) + c, Newline) }

\* What is read back from a serialized file:
\*   startxref  the value in the footer
\*   declared   the entry count the cross-reference section declares
\*   entries    the offset of the first 20-byte entry, that of object 0
NotReadable == [ok |-> FALSE, startxref |-> 0, declared |-> 0, entries |-> 0]

ReadBack(buf) ==
    IF FooterDigits(buf) = {} THEN NotReadable
    ELSE LET d == CHOOSE d \in FooterDigits(buf) : TRUE
             xs == ReadNum(buf, Len(buf) - 6 - d, d)
         IN  IF XrefDigits(buf, xs) = {} THEN NotReadable
             ELSE LET c == CHOOSE c \in XrefDigits(buf, xs) : TRUE
                  IN  [ok |-> TRUE, startxref |-> xs,
                       declared |-> ReadNum(buf, xs + Len(XrefA), c),
                       entries |-> xs + Len(XrefA) + c + 1]

\* The entry for object number i is an in-use entry / the offset it holds.
InUse(buf, rb, i) ==
    /\ IsDigits(buf, rb.entries + 20 * i, 10)
    /\ At(buf, rb.entries + 20 * i + 10, XrefInUse)

XrefOffset(buf, rb, i) == ReadNum(buf, rb.entries + 20 * i, 10)

\* The object of the document whose ID is i.
ObjectWithId(i) ==
    objects[CHOOSE k \in 1..Len(objects) : objects[k].id = i]

\* C12: in the serialized file the in-use entry for object number i holds
\* the byte offset of the first byte of '<i> 0 obj', and what follows that
\* header is the body of the object whose ID is i.
C12_XrefOffsets ==
    out.done =>
        LET rb == ReadBack(out.bytes)
        IN  /\ rb.ok
            /\ \A i \in 1..(nextId - 1) :
                /\ InUse(out.bytes, rb, i)
                /\ \E k \in 1..Len(objects) : objects[k].id = i
                /\ At(out.bytes, XrefOffset(out.bytes, rb, i),
                      encodePdfString(ObjectText(ObjectWithId(i))))

\* A serialized document in which an object with multi-byte characters
\* stands before other objects.
C12_Witness ==
    /\ out.done
    /\ Len(objects) >= 5
    /\ objects[3].str \in Strs
    /\ Len(encodePdfString(objects[3].str)) > Len(objects[3].str)

\* C13: the catalog has ID 1 and the page tree ID 2; every other object has
\* an ID above 2 and below nextId, and an object created later has a
\* greater ID, so no two objects share one.
C13_ObjectIds ==
    /\ catalogId = 1
    /\ pagesId = 2
    /\ nextId >= 3
    /\ \A i \in 1..Len(objects) : objects[i].id < nextId
    /\ ~out.done => \A i \in 1..Len(objects) : objects[i].id > pagesId
    /\ \A i, j \in 1..Len(objects) :
           i < j => objects[i].id < objects[j].id

\* Two pages and their objects have been added: IDs 3..8 are issued.
C13_Witness ==
    /\ ~out.done
    /\ nextId = 9
    /\ Len(pages) = 2
    /\ Len(objects) = 6

\* C14: after serialization the object sequence is catalog, page tree, then
\* the others, with IDs 1, 2, ..., N in this order, and the file holds the
\* objects in that order, one right after the other, from the end of the
\* header line to the start of the cross-reference section.
C14_AscendingOrder ==
    out.done =>
        LET rb == ReadBack(out.bytes)
        IN  /\ [i \in 1..Len(objects) |-> objects[i].id]
                   = [i \in 1..Len(objects) |-> i]
            /\ objects[1].str = catalogObj
            /\ objects[2].str = pagesObj
            /\ rb.ok
            /\ XrefOffset(out.bytes, rb, 1) = Len(PdfHeader)
            /\ \A i \in 1..Len(objects) :
                LET len == Len(encodePdfString(ObjectText(objects[i])))
                    next == IF i < Len(objects)
                             THEN XrefOffset(out.bytes, rb, i + 1)
                             ELSE rb.startxref
                IN  /\ At(out.bytes, XrefOffset(out.bytes, rb, i),
                          toString(i) \o ObjOpen)
                    /\ XrefOffset(out.bytes, rb, i) + len = next

\* A serialized document of two pages: eight objects.
C14_Witness ==
    /\ out.done
    /\ Len(objects) = 8
    /\ Len(pages) = 2

\* C15: serialize() on a document without pages returns no bytes.
C15_EmptyPagesFail ==
    (out.done /\ pages = <<>>) => out.bytes = <<>>

\* C16: the cross-reference section starts at the startxref offset, right
\* after the last object; it declares N + 1 entries for the N objects, the
\* free entry first and then N in-use entries; the trailer that follows
\* closes the file and names N + 1 as size and the catalog as root.
C16_XrefTrailer ==
    out.done =>
        LET N == Len(objects)
            buf == out.bytes
            rb == ReadBack(buf)
            trailer == TrailerA \o toString(N + 1) \o TrailerB
                           \o toString(catalogId) \o TrailerC
                           \o toString(rb.startxref) \o TrailerD
        IN  /\ rb.ok
            /\ At(buf, rb.startxref - Len(EndobjKw), EndobjKw)
            /\ rb.declared = N + 1
            /\ At(buf, rb.entries, XrefFree)
            /\ \A i \in 1..N : InUse(buf, rb, i)
            /\ At(buf, rb.entries + 20 * (N + 1), trailer)
            /\ rb.entries + 20 * (N + 1) + Len(trailer) = Len(buf)
            /\ objects[1].id = catalogId
            /\ objects[1].str = catalogObj

\* A serialized document of one image and one page: six objects.
C16_Witness ==
    /\ out.done
    /\ Len(objects) = 6
    /\ Len(pages) = 1
    /\ At(objects[3].str, 0, ImageDictA)

\* C17: every image object of a serialized document names the Ascii85
\* filter before the DCT filter and declares as /Length the number of
\* bytes written between 'stream\n' and '\nendstream'.
C17_ImageLength ==
    out.done =>
        \A k \in 1..Len(objects) :
            At(objects[k].str, 0, ImageDictA) =>
                \E n \in 0..Len(objects[k].str), s \in Sizes :
                    LET str == objects[k].str
                        head == ImageDictA \o toString(s[1]) \o ImageDictB
                                    \o toString(s[2]) \o ImageDictC
                                    \o toString(n) \o DictClose \o StreamOpen
                        data == SubSeq(str, Len(head) + 1,
                                       Len(str) - Len(StreamClose))
                    IN  /\ At(str, 0, head)
                        /\ At(str, Len(str) - Len(StreamClose), StreamClose)
                        /\ Len(encodePdfString(data)) = n

(***************************************************************************)
(* Ascii85 as the standard defines it, for stating C18..C20.  A 32-bit     *)
(* unsigned value is kept as <<hi, lo>>, its two 16-bit halves.            *)
(***************************************************************************)
\* The 4-byte group number k (from 0) of s, zero-padded.
Group(s, k) ==
    [j \in 1..4 |-> IF 4 * k + j <= Len(s) THEN s[4 * k + j] ELSE 0]

\* The 5 base-85 digits, most significant first, of the unsigned
\* big-endian value of the 4-byte group g.
Base85Digits(g) ==
    LET hi == g[1] * 256 + g[2]
        lo == g[3] * 256 + g[4]
        Div(v) == LET r == v[1] % 85
                  IN  <<v[1] \div 85, (r * 65536 + v[2]) \div 85>>
        Mod(v) == ((v[1] % 85) * 65536 + v[2]) % 85
        v0 == <<hi, lo>>
        v1 == Div(v0)
        v2 == Div(v1)
        v3 == Div(v2)
        v4 == Div(v3)
    IN  <<Mod(v4), Mod(v3), Mod(v2), Mod(v1), Mod(v0)>>

\* The characters of those digits.
Base85Chars(g) == [j \in 1..5 |-> Base85Digits(g)[j] + 33]

\* Where the output of full group k starts in the encoded string (1-based):
\* an all-zero group takes one character, any other five.
RECURSIVE GroupStart(_, _)
GroupStart(s, k) ==
    IF k = 0 THEN 1
    ELSE GroupStart(s, k - 1)
             + (IF Group(s, k - 1) = <<0, 0, 0, 0>> THEN 1 ELSE 5)

\* The standard decoder.  The text up to the EOF marker '~>' is read in
\* groups: 'z' is four zero bytes, five characters in '!'..'u' are a 32-bit
\* value, a final group of k >= 2 characters is padded with 'u' and gives
\* k - 1 bytes.  Anything else is not Ascii85.
Invalid == [ok |-> FALSE, bytes |-> <<>>]

DecodeGroup(cs) ==
    LET d == [j \in 1..5 |-> IF j <= Len(cs) THEN cs[j] - 33 ELSE 84]
        Acc(v, x) == LET lo == v[2] * 85 + x
                     IN  <<v[1] * 85 + lo \div 65536, lo % 65536>>
        v == Acc(Acc(Acc(Acc(Acc(<<0, 0>>, d[1]), d[2]), d[3]), d[4]), d[5])
    IN  IF \/ Len(cs) < 2
           \/ \E j \in 1..Len(cs) : cs[j] < 33 \/ cs[j] > 117
           \/ v[1] >= 65536
        THEN Invalid
        ELSE [ok |-> TRUE,
              bytes |-> SubSeq(<<v[1] \div 256, v[1] % 256,
                                 v[2] \div 256, v[2] % 256>>,
                               1, Min(Len(cs), 5) - 1)]

RECURSIVE DecodeFrom(_, _)
DecodeFrom(s, i) ==
    IF i > Len(s) THEN [ok |-> TRUE, bytes |-> <<>>]
    ELSE LET z == s[i] = 122
             n == IF z THEN 1 ELSE Min(5, Len(s) - i + 1)
             g == IF z THEN [ok |-> TRUE, bytes |-> <<0, 0, 0, 0>>]
                  ELSE DecodeGroup(SubSeq(s, i, i + n - 1))
             rest == DecodeFrom(s, i + n)
         IN  IF g.ok /\ rest.ok
             THEN [ok |-> TRUE, bytes |-> g.bytes \o rest.bytes]
             ELSE Invalid

ascii85Decode(s) ==
    IF Len(s) >= 2 /\ SubSeq(s, Len(s) - 1, Len(s)) = <<126, 62>>
    THEN DecodeFrom(SubSeq(s, 1, Len(s) - 2), 1)
    ELSE Invalid

\* C18: decoding what ascii85Encode returned gives back its argument.
C18_RoundTrip ==
    encoded.done =>
        LET d == ascii85Decode(encoded.str) IN d.ok /\ d.bytes = bytes

\* C19: every full, non-zero 4-byte group is written as the 5 base-85
\* digits of its unsigned big-endian value, most significant first, each
\* as the character digit + 33, so each in 33..117.
C19_FullGroup ==
    encoded.done =>
        \A k \in 0..(Len(bytes) \div 4 - 1) :
            Group(bytes, k) # <<0, 0, 0, 0>> =>
                LET at == GroupStart(bytes, k)
                IN  /\ at + 4 <= Len(encoded.str)
                    /\ SubSeq(encoded.str, at, at + 4)
                           = Base85Chars(Group(bytes, k))
                    /\ \A j \in at..(at + 4) :
                           encoded.str[j] \in 33..117

\* C20: a final partial group of n bytes is written as the first n + 1 of
\* the 5 characters of the zero-padded group, followed by the EOF marker.
C20_PartialGroup ==
    (encoded.done /\ Len(bytes) % 4 # 0) =>
        LET n == Len(bytes) % 4
            k == Len(bytes) \div 4
            at == GroupStart(bytes, k)
        IN  /\ Len(encoded.str) = at + n + 2
            /\ SubSeq(encoded.str, at, at + n)
                   = SubSeq(Base85Chars(Group(bytes, k)), 1, n + 1)

(***************************************************************************)
(* C21..C30.                                                               *)
(***************************************************************************)
\* The full 4-byte groups of the argument / those that are all zero.
FullGroups == 0..(Len(bytes) \div 4 - 1)

ZeroGroups == { k \in FullGroups : Group(bytes, k) = <<0, 0, 0, 0>> }

\* C21: a full group of four zero bytes is written as the one character
\* 'z' where another group takes five, and 'z' stands nowhere else in the
\* output, a zero partial group included.
C21_ZeroGroup ==
    encoded.done =>
        LET n == Len(bytes) % 4
            tail == GroupStart(bytes, Len(bytes) \div 4)
        IN  /\ \A k \in ZeroGroups : encoded.str[GroupStart(bytes, k)] = 122
            /\ Len(encoded.str)
                   = (tail - 1) + (IF n > 0 THEN n + 1 ELSE 0) + 2
            /\ { j \in 1..Len(encoded.str) : encoded.str[j] = 122 }
                   = { GroupStart(bytes, k) : k \in ZeroGroups }

\* Five zero bytes have been encoded: a zero group and a zero partial group.
C21_Witness ==
    /\ encoded.done
    /\ bytes = <<0, 0, 0, 0, 0>>
    /\ encoded.str[1] = 122

\* C22: the output ends with '~>', and for no bytes it is '~>' alone.
C22_EndMarker ==
    encoded.done =>
        /\ Len(encoded.str) >= 2
        /\ SubSeq(encoded.str, Len(encoded.str) - 1, Len(encoded.str))
               = <<126, 62>>
        /\ bytes = <<>> => encoded.str = <<126, 62>>

\* The empty byte sequence has been encoded.
C22_Witness ==
    /\ encoded.done
    /\ bytes = <<>>
    /\ Len(encoded.str) = 2

\* p is x rounded to the nearest integer, halves up, for x = a / b, b > 0.
IsRound(p, a, b) == 2 * p * b - b <= 2 * a /\ 2 * a < 2 * p * b + b

\* C23: a stitched raster is round(totalHeight * dpr) high and as wide as
\* the first tile, whatever the later tiles are.
C23_RasterDims ==
    \A l \in L :
        stitched[l].done =>
            /\ IsRound(stitched[l].pixelHeight,
                       doc.totalHeight * doc.dprNum, doc.dprDen)
            /\ stitched[l].pixelWidth = slices[l][1].w

\* The second script has stitched two tiles, the second wider than the
\* first.
C23_Witness ==
    /\ stitched[2].done
    /\ Len(slices[2]) = 2
    /\ slices[2][2].w > slices[2][1].w
    /\ stitched[2].pixelWidth = slices[2][1].w

\* C24: tile i goes to row round(offset * dpr); its full height is copied
\* when it fits above the bottom edge, otherwise the rows down to the
\* bottom edge, and nothing when there are none.
C24_TileRows ==
    \A l \in L :
        (stitched[l].done /\ "draw" \notin failures[l]) =>
            \A i \in 1..Len(slices[l]) :
                LET d == stitched[l].draws[i]
                    h == slices[l][i].h
                IN  /\ IsRound(d.destY, slices[l][i].y * doc.dprNum,
                               doc.dprDen)
                    /\ d.rows = IF d.destY + h <= stitched[l].pixelHeight
                                THEN h
                                ELSE Max(0, stitched[l].pixelHeight - d.destY)
                    /\ d.rows = 0 => ~d.drawn

\* C25: when totalHeight is no multiple of viewportHeight the last tile of
\* a run without failures is copied with pixelHeight - destY rows, and no
\* tile is drawn outside the rows 0..pixelHeight-1.
C25_LastTileClipped ==
    \A l \in L :
        (stitched[l].done /\ failures[l] = {}
            /\ doc.totalHeight % doc.viewportHeight # 0) =>
            LET last == stitched[l].draws[Len(slices[l])]
            IN  /\ last.rows = stitched[l].pixelHeight - last.destY
                /\ \A i \in 1..Len(slices[l]) :
                       LET d == stitched[l].draws[i]
                       IN  d.drawn => /\ d.destY >= 0
                                      /\ d.destY + d.rows
                                             <= stitched[l].pixelHeight

\* The tile list of listener l covers totalHeight = k * viewportHeight
\* exactly: k tiles at 0, vh, ..., (k-1)*vh, each round(vh * dpr) high.
ExactCover(l) ==
    /\ Len(slices[l]) > 0
    /\ doc.totalHeight = Len(slices[l]) * doc.viewportHeight
    /\ \A i \in 1..Len(slices[l]) :
           /\ slices[l][i].y = (i - 1) * doc.viewportHeight
           /\ IsRound(slices[l][i].h, doc.viewportHeight * doc.dprNum,
                      doc.dprDen)

FullCopies(l) ==
    /\ IsRound(stitched[l].pixelHeight,
               Len(slices[l]) * doc.viewportHeight * doc.dprNum, doc.dprDen)
    /\ \A i \in 1..Len(slices[l]) :
           stitched[l].draws[i].rows = slices[l][i].h

C28_WhiteFill ==
    \A l \in L : stitched[l].done => stitched[l].fill

\* C29: the page of a document made from the stitched raster has the
\* raster's pixel dimensions when both are at most 14400; otherwise both
\* are multiplied by min(14400 / pixelWidth, 14400 / pixelHeight) and
\* rounded; neither page dimension is above 14400.
C29_PageDims ==
    \A l \in L :
        pc[l] = "save" =>
            \A m \in SentBy(l) :
                (m.kind = "pdf" /\ m.image = "stitched") =>
                    LET pw == stitched[l].pixelWidth
                        ph == stitched[l].pixelHeight
                        big == IF pw >= ph THEN pw ELSE ph
                    IN  /\ m.page[1] <= 14400
                        /\ m.page[2] <= 14400
                        /\ IF big <= 14400
                           THEN m.page = <<pw, ph>>
                           ELSE /\ IsRound(m.page[1], pw * 14400, big)
                                /\ IsRound(m.page[2], ph * 14400, big)

\* C30: at dpr 1, with totalHeight >= viewportHeight > 0, after a run in
\* which nothing failed every row of the raster lies in the rows copied from
\* some tile.
C30_GapFree ==
    \A l \in L :
        (/\ stitched[l].done
         /\ failures[l] = {}
         /\ doc.dprNum = doc.dprDen
         /\ doc.totalHeight >= doc.viewportHeight
         /\ doc.viewportHeight > 0)
        => \A row \in 0..(doc.totalHeight - 1) :
               \E i \in 1..Len(slices[l]) :
                   LET d == stitched[l].draws[i]
                   IN  d.drawn /\ d.destY <= row /\ row < d.destY + d.rows

(***************************************************************************)
(* C31..C38.                                                               *)
(***************************************************************************)
\* C31: a run that starts goes to request its first tile at offset 0, for
\* a page shorter than the viewport too, and when its loop has ended
\* without a failed capture the tile list is not empty and starts at 0.
C31_FirstTileAtZero ==
    [][\A l \in L :
        /\ (msgs' = msgs + 1 /\ runId'[l] # runId[l]) =>
               /\ pc'[l] = "wait"
               /\ currentY'[l] = 0
        /\ (pc'[l] = "load" /\ "capture" \notin failures'[l]) =>
               /\ Len(slices'[l]) > 0
               /\ slices'[l][1].y = 0]_vars

\* C32: the offset recorded with a tile is the scroll position of the
\* window when the tile is captured, the window standing where the clamping
\* host put it on the scroll request for that tile.
C32_OffsetIsScrollPosition ==
    [][\A l \in L :
        (/\ Len(slices'[l]) = Len(slices[l]) + 1
         /\ scrollY = Max(0, Min(currentY[l],
                                 doc.totalHeight - doc.viewportHeight)))
        => slices'[l][Len(slices'[l])].y = scrollY]_vars

\* C33: serialize() leaves the document as it was: a second call returns
\* the bytes the first returned, and the registry then holds one object for
\* each ID issued.
C33_SerializeTwice ==
    out.done =>
        LET again == serialize
        IN  /\ again.bytes = out.bytes
            /\ \A i \in 1..(nextId - 1) :
                   Cardinality({ k \in 1..Len(again.objects) :
                                     again.objects[k].id = i }) = 1

\* C34: no run hands more than one save message to the sink, a message is
\* handed over only by a run that holds its guard, and a run that ends
\* delivered has handed over the one serialized document.
C34_OneSavePerRun ==
    [][/\ \A m \in sink' \ sink : isRunning[m.l] /\ m.run = runId[m.l]
       /\ \A l \in L :
           /\ Cardinality({ m \in sink' : m.l = l /\ m.run = runId'[l] }) <= 1
           /\ (pc[l] = "save" /\ lastExit'[l] = "delivered") =>
                  \E m \in sink :
                      /\ m.kind = "pdf"
                      /\ { n \in sink : n.l = l /\ n.run = runId[l] } = {m}]_vars

\* Reading the objects of a document: keywords, and the references
\* '<n> 0 R' that follow them.
\* '<< /Type /Page '
PageTypeKw ==
    <<60, 60, 32, 47, 84, 121, 112, 101, 32, 47, 80, 97, 103, 101, 32>>

\* '/Parent '
ParentKw == <<47, 80, 97, 114, 101, 110, 116, 32>>

\* '/Contents '
ContentsKw == <<47, 67, 111, 110, 116, 101, 110, 116, 115, 32>>

\* '/Resources '
ResourcesKw == <<47, 82, 101, 115, 111, 117, 114, 99, 101, 115, 32>>

\* '/XObject << /Im1 '
Im1Kw ==
    <<47, 88, 79, 98, 106, 101, 99, 116, 32, 60, 60, 32, 47, 73, 109, 49, 32>>

\* '/Kids ['
KidsKw == <<47, 75, 105, 100, 115, 32, 91>>

\* '/Count '
CountKw == <<47, 67, 111, 117, 110, 116, 32>>

\* '<< /Length '
LengthKw == <<60, 60, 32, 47, 76, 101, 110, 103, 116, 104, 32>>

\* ' 0 R'
RefKw == <<32, 48, 32, 82>>

\* The offsets at which kw stands in s.
KwAt(s, kw) == { o \in 0..(Len(s) - Len(kw)) : At(s, o, kw) }

\* The numbers n for which kw, the digits of n and then `after` stand in s.
NumsAfter(s, kw, after) ==
    UNION { { ReadNum(s, o + Len(kw), d) :
                d \in { e \in 1..5 : /\ IsDigits(s, o + Len(kw), e)
                                     /\ At(s, o + Len(kw) + e, after) } } :
            o \in KwAt(s, kw) }

\* The references listed in s from offset off up to the closing bracket:
\* '<n> 0 R' separated by spaces; <<0>> where something else stands.
RECURSIVE RefList(_, _)
RefList(s, off) ==
    IF off >= Len(s) THEN <<0>>
    ELSE IF s[off + 1] = 93 THEN <<>>
    ELSE IF s[off + 1] = 32 THEN RefList(s, off + 1)
    ELSE LET ds == { e \in 1..5 : /\ IsDigits(s, off, e)
                                  /\ At(s, off + e, RefKw) }
         IN  IF ds = {} THEN <<0>>
             ELSE LET d == CHOOSE e \in ds : TRUE
                  IN  <<ReadNum(s, off, d)>>
                          \o RefList(s, off + d + Len(RefKw))

IsPageObject(o) == At(o.str, 0, PageTypeKw)

\* C35: in a serialized document the page tree lists the page objects in
\* the order they were created and counts them; each page object names the
\* page tree as its parent, the object created two before it as its
\* contents (a stream) and the one created right before it as its
\* resources, and these resources name the image passed to the call, the
\* object issued last before the call.
C35_PageTree ==
    out.done =>
        LET tree == ObjectWithId(pagesId).str
            pageObjs == SelectSeq(objects, IsPageObject)
        IN  /\ Cardinality(KwAt(tree, KidsKw)) = 1
            /\ RefList(tree, (CHOOSE o \in KwAt(tree, KidsKw) : TRUE)
                                 + Len(KidsKw))
                   = [i \in 1..Len(pageObjs) |-> pageObjs[i].id]
            /\ NumsAfter(tree, CountKw, DictClose) = {Len(pageObjs)}
            /\ \A i \in 1..Len(pageObjs) :
                   LET p == pageObjs[i]
                   IN  /\ NumsAfter(p.str, ParentKw, RefKw) = {pagesId}
                       /\ NumsAfter(p.str, ContentsKw, RefKw) = {p.id - 2}
                       /\ NumsAfter(p.str, ResourcesKw, RefKw) = {p.id - 1}
                       /\ At(ObjectWithId(p.id - 2).str, 0, LengthKw)
                       /\ NumsAfter(ObjectWithId(p.id - 1).str, Im1Kw, RefKw)
                              = {p.id - 3}

\* A document of two pages has been serialized: the page objects are 5
\* and 8.
C35_Witness ==
    /\ out.done
    /\ pages = <<5, 8>>
    /\ IsPageObject(ObjectWithId(5))
    /\ IsPageObject(ObjectWithId(8))

\* The most tile requests a run makes:
\* floor((totalHeight - viewportHeight + 1) / viewportHeight) + 1
MostRequests ==
    ((doc.totalHeight - doc.viewportHeight + 1) \div doc.viewportHeight) + 1

\* C36: a run sends at most MostRequests tile requests; each answered
\* request moves the loop on by viewportHeight, and when the last of them
\* is answered the loop is left.
C36_LoopTerminates ==
    [][\A l \in L :
        /\ Len(requested'[l]) <= MostRequests
        /\ (pc[l] = "capture" /\ pc'[l] = "wait") =>
               currentY'[l] = currentY[l] + doc.viewportHeight
        /\ (pc[l] = "capture" /\ pc'[l] # "capture"
                /\ Len(requested[l]) = MostRequests) => pc'[l] # "wait"]_vars

\* Listener 1 has left the loop of the 1801/800 page after its two
\* requests, the most the bound allows.
C36_Witness ==
    /\ doc = Doc1801
    /\ pc[1] = "load"
    /\ Len(requested[1]) = 2
    /\ MostRequests = 2

\* C37: the page of a document made from a stitched raster of at least one
\* pixel each way is at least 1 wide and 1 high.
C37_PageNotEmpty ==
    \A l \in L :
        (pc[l] = "save" /\ stitched[l].pixelWidth >= 1
            /\ stitched[l].pixelHeight >= 1) =>
            \A m \in SentBy(l) :
                (m.kind = "pdf" /\ m.image = "stitched") =>
                    m.page[1] >= 1 /\ m.page[2] >= 1

\* The senders whose URL is one capture is prohibited on: about:,
\* chrome:, resource:, moz-extension:, view-source: and data: URLs and the
\* pages of addons.mozilla.org.
ProhibitedSenders ==
    { [tab |-> TRUE, hasUrl |-> TRUE, url |-> u] :
          u \in { TabUrls[k] : k \in 4..10 } }

\* 'data:image/'
DataImageKw == <<100, 97, 116, 97, 58, 105, 109, 97, 103, 101, 47>>

\* C38: the capture-viewport handler answers with a string that begins
\* with 'data:image/' or with null, never with a rejection, and does not
\* call captureVisibleTab for a sender on a prohibited URL or after the
\* permission check has reported the permissions missing.
C38_HandlerAnswers ==
    /\ bpc = "done" =>
           /\ answer.kind = "value"
           /\ \/ answer.val.type = "null"
              \/ /\ answer.val.type = "string"
                 /\ Len(answer.val.str) >= Len(DataImageKw)
                 /\ SubSeq(answer.val.str, 1, Len(DataImageKw)) = DataImageKw
    /\ captured =>
           /\ sender \notin ProhibitedSenders
           /\ hasPermission # "missing"

=============================================================================
